---- MODULE Spec2Model ----
(***************************************************************************)
(* DineBot: the order ledger of App (src/unnamed/part_000), its batch      *)
(* reconciliation handlers, the bill computed at checkout and the          *)
(* submission of the bill, together with the table number form             *)
(* (src/unnamed/part_001).                                                 *)
(*                                                                         *)
(* Strings that the code inspects character by character (item names,      *)
(* money strings, the table number) are sequences of one-character         *)
(* strings.  Numbers that hold money are integers counting 1/10000 of a    *)
(* rupee, so that a price with two decimals times a whole percentage is    *)
(* exact; NaN is a value of its own.                                       *)
(*                                                                         *)
(* Object identity.  orderItems holds line objects.  The Bill's items      *)
(* array is a copy of the array, not of the objects ([...orderItems],      *)
(* line 293), so a Bill item may be the very object that is still in the   *)
(* ledger.  A Bill item therefore carries `alias`: the position in         *)
(* orderItems of the object it is, or 0 when that object is no longer in   *)
(* the ledger.  A reducer returns, next to the new array, where each of    *)
(* its objects came from (`src`) and what the objects of the previous      *)
(* array hold after the call (`prev`).                                     *)
(***************************************************************************)
EXTENDS Integers, Sequences, FiniteSets, TLC

VARIABLES
    currentPage,        \* line 38
    orderItems,         \* line 39: the ledger
    currentBillData,    \* line 40: NoBill or the Bill
    tableNumber,        \* line 41
    activeMenuItems,    \* line 42
    menuLoadingError,   \* line 43
    isMenuLoading,      \* line 44
    storedMenuJson,     \* localStorage's 'fireFroastMenu' (lines 53, 75, 78, 86)
    loadMenuAt,         \* where the loadMenu effect of lines 47-93 stands
    isSubmitting,       \* line 303
    inFlight,           \* the addDoc call of line 324 that has not settled yet
    bills,              \* the documents inserted into the "bills" collection
    formError,          \* TableNumberPage's error (part_001 line 9)
    last                \* observation of the latest handler call

vars == <<currentPage, orderItems, currentBillData, tableNumber, activeMenuItems,
          menuLoadingError, isMenuLoading, storedMenuJson, loadMenuAt, isSubmitting,
          inFlight, bills, formError, last>>

-----------------------------------------------------------------------------
(* Bounds *)

MaxQty == 2          \* largest quantity a ledger line is let to reach
MaxLines == 3        \* largest number of ledger lines in SpecLedger
MaxAppLines == 2     \* largest number of ledger lines in Spec
MaxStartLines == 2   \* largest number of lines of the ledger SpecReducer starts from
MaxBatch == 2        \* longest batch handed to a batch handler in SpecReducer
MaxAppBatch == 1     \* longest batch handed to a batch handler in Spec and SpecLedger
MaxMenuLines == 2    \* largest number of ledger lines in SpecMenu

-----------------------------------------------------------------------------
(* Characters and strings *)

Upper == <<"A","B","C","D","E","F","G","H","I","J","K","L","M",
           "N","O","P","Q","R","S","T","U","V","W","X","Y","Z">>
Lower == <<"a","b","c","d","e","f","g","h","i","j","k","l","m",
           "n","o","p","q","r","s","t","u","v","w","x","y","z">>

\* String.prototype.toLowerCase, one character at a time
LowerOf == [c \in {Upper[i] : i \in 1..26} |-> Lower[CHOOSE i \in 1..26 : Upper[i] = c]]

ToLowerChar(c) == IF c \in DOMAIN LowerOf THEN LowerOf[c] ELSE c

ToLowerCase(s) == [i \in 1..Len(s) |-> ToLowerChar(s[i])]

RECURSIVE TrimStart(_)
TrimStart(s) ==
    IF s # <<>> /\ Head(s) = " " THEN TrimStart(Tail(s)) ELSE s

RECURSIVE TrimEnd(_)
TrimEnd(s) ==
    IF s # <<>> /\ s[Len(s)] = " " THEN TrimEnd(SubSeq(s, 1, Len(s) - 1)) ELSE s

Trim(s) == TrimEnd(TrimStart(s))

Digits == <<"0","1","2","3","4","5","6","7","8","9">>
ValueOf == [c \in {Digits[i] : i \in 1..10} |-> (CHOOSE i \in 1..10 : Digits[i] = c) - 1]
IsDigit(c) == c \in DOMAIN ValueOf
DigitValue(c) == ValueOf[c]

RECURSIVE ToDigits(_)
ToDigits(n) ==
    IF n < 10 THEN <<Digits[n + 1]>>
    ELSE Append(ToDigits(n \div 10), Digits[(n % 10) + 1])

RECURSIVE DigitsValue(_)
DigitsValue(s) ==
    IF s = <<>> THEN 0
    ELSE 10 * DigitsValue(SubSeq(s, 1, Len(s) - 1)) + DigitValue(s[Len(s)])

\* the longest prefix of s made of digits
RECURSIVE DigitPrefix(_)
DigitPrefix(s) ==
    IF s # <<>> /\ IsDigit(Head(s)) THEN <<Head(s)>> \o DigitPrefix(Tail(s)) ELSE <<>>

-----------------------------------------------------------------------------
(* Money *)

Rupee == "Rs"        \* the currency symbol, one character
NaN == 0 - 1
Unit == 10000        \* one rupee

\* the digits after the decimal point, read as a fraction of a rupee
Fraction(f) ==
    IF Len(f) = 0 THEN 0
    ELSE IF Len(f) = 1 THEN DigitValue(f[1]) * (Unit \div 10)
    ELSE DigitValue(f[1]) * (Unit \div 10) + DigitValue(f[2]) * (Unit \div 100)

\* parseFloat: the number that the longest numeric prefix of s denotes
ParseFloat(s) ==
    LET whole == DigitPrefix(s)
        rest == SubSeq(s, Len(whole) + 1, Len(s))
        frac == IF rest # <<>> /\ Head(rest) = "." THEN DigitPrefix(Tail(rest)) ELSE <<>>
    IN  IF whole = <<>> /\ frac = <<>> THEN NaN
        ELSE DigitsValue(whole) * Unit + Fraction(frac)

\* String.prototype.replace(c, ''): the first occurrence of c is dropped
RECURSIVE ReplaceFirst(_, _)
ReplaceFirst(s, c) ==
    IF s = <<>> THEN <<>>
    ELSE IF Head(s) = c THEN Tail(s)
    ELSE <<Head(s)>> \o ReplaceFirst(Tail(s), c)

parsePrice(priceString) == ParseFloat(Trim(ReplaceFirst(priceString, Rupee)))

\* Number.prototype.toFixed(2)
ToFixed2(x) ==
    LET p == (x + (Unit \div 200)) \div (Unit \div 100)
        c == p % 100
    IN  ToDigits(p \div 100) \o <<".">> \o <<Digits[(c \div 10) + 1], Digits[(c % 10) + 1]>>

formatPrice(priceNumber) == <<Rupee>> \o ToFixed2(priceNumber)

\* Number(s) of a string: the whole trimmed string must be a numeric literal
NumberOf(s) ==
    LET t == Trim(s)
        whole == DigitPrefix(t)
        rest == SubSeq(t, Len(whole) + 1, Len(t))
        frac == IF rest # <<>> /\ Head(rest) = "." THEN DigitPrefix(Tail(rest)) ELSE <<>>
        used == Len(whole) + (IF rest # <<>> /\ Head(rest) = "." THEN 1 + Len(frac) ELSE 0)
    IN  IF t = <<>> THEN 0
        ELSE IF used = Len(t) /\ (whole # <<>> \/ frac # <<>>)
             THEN DigitsValue(whole) * Unit + Fraction(frac)
        ELSE NaN

isNaN(x) == x = NaN

-----------------------------------------------------------------------------
(* The catalog *)

NoPieces == 0        \* a MenuItem without `pieces`

Burger == <<"B","u","r","g","e","r">>
Fries == <<"F","r","i","e","s">>

\* DEFAULT_MENU_ITEMS (imported on line 10): two items, one sold by the piece
DEFAULT_MENU_ITEMS ==
    << [id |-> "m1", name |-> Burger, price |-> <<Rupee,"1","0","0">>, pieces |-> NoPieces],
       [id |-> "m2", name |-> Fries, price |-> <<Rupee,"4","9",".","5","0">>, pieces |-> 2] >>

GST_RATE_PERCENT == 5

ItemIds == {DEFAULT_MENU_ITEMS[i].id : i \in 1..Len(DEFAULT_MENU_ITEMS)}

\* a line is {...menuItem, quantity, customizationNotes}: its name, price and
\* pieces are those of the menu item with its id
ItemOf(id) == DEFAULT_MENU_ITEMS[CHOOSE i \in 1..Len(DEFAULT_MENU_ITEMS) : DEFAULT_MENU_ITEMS[i].id = id]

-----------------------------------------------------------------------------
(* Notes and lines *)

Undefined == "<undefined>"      \* an absent customizationNotes
NoOnion == "no onion"

\* (customizationNotes || '')
OrEmpty(notes) == IF notes = Undefined \/ notes = "" THEN "" ELSE notes

\* Array.prototype.findIndex, counting from 1 and 0 when there is none; hits[i]
\* tells whether the callback holds of the i-th element
FindIndex(hits) ==
    IF \E i \in 1..Len(hits) : hits[i]
    THEN CHOOSE i \in 1..Len(hits) : hits[i] /\ \A j \in 1..(i - 1) : ~hits[j]
    ELSE 0

\* the positions i with hits[i], in order
Positions(hits) == SelectSeq([i \in 1..Len(hits) |-> i], LAMBDA i : hits[i])

SameLine_RawNotes(oi, itemId, notes) ==
    oi.id = itemId /\ oi.notes = notes

\* oi.id === id && (oi.customizationNotes || '') === (notes || '')
SameLine(oi, itemId, notes) ==
    oi.id = itemId /\ OrEmpty(oi.notes) = OrEmpty(notes)

\* oi.id === id && (!oi.customizationNotes || oi.customizationNotes === '')
IsPlainLine(oi, itemId) ==
    oi.id = itemId /\ (oi.notes = Undefined \/ oi.notes = "")

Line(id, notes, quantity) == [id |-> id, notes |-> notes, quantity |-> quantity]

\* what a reducer returns: the new array, the position in the previous array of
\* each of its objects (0: an object made by this call), and the objects of the
\* previous array as they are after the call
Reduced(order, src, prev) == [order |-> order, src |-> src, prev |-> prev]

Identity(n) == [i \in 1..n |-> i]

\* the lines of an order that are the line of an item and its notes
Matches(order, itemId, notes) ==
    [i \in 1..Len(order) |-> SameLine(order[i], itemId, notes)]

\* prevOrder.filter(item => !(item is the line of itemId and notes))
FilterOut(prevOrder, itemId, notes) ==
    LET ps == Positions([i \in 1..Len(prevOrder) |-> ~Matches(prevOrder, itemId, notes)[i]])
    IN  Reduced([j \in 1..Len(ps) |-> prevOrder[ps[j]]], ps, prevOrder)

\* prevOrder.map((oi, i) => hits[i] ? {...oi, quantity: quantities[i]} : oi)
MapQuantity(prevOrder, hits, quantities) ==
    Reduced([i \in 1..Len(prevOrder) |->
                IF hits[i] THEN [prevOrder[i] EXCEPT !.quantity = quantities[i]]
                ELSE prevOrder[i]],
            [i \in 1..Len(prevOrder) |-> IF hits[i] THEN 0 ELSE i],
            prevOrder)

-----------------------------------------------------------------------------
(* The single-line reducers *)

handleAddItemToOrder(prevOrder, itemToAdd, quantity, customizationNotes) ==
    LET existingItemIndex == FindIndex(Matches(prevOrder, itemToAdd.id, customizationNotes))
    IN  IF existingItemIndex > 0
        THEN MapQuantity(prevOrder,
                         [i \in 1..Len(prevOrder) |-> i = existingItemIndex],
                         [i \in 1..Len(prevOrder) |-> prevOrder[i].quantity + quantity])
        ELSE Reduced(Append(prevOrder, Line(itemToAdd.id, customizationNotes, quantity)),
                     Append(Identity(Len(prevOrder)), 0),
                     prevOrder)

UpdateDeletes_OnlyNegative(newQuantity) == newQuantity < 0

\* newQuantity <= 0
UpdateDeletes(newQuantity) == newQuantity <= 0

handleUpdateOrderItemQuantity(prevOrder, itemId, newQuantity, itemCustomizationNotes) ==
    IF UpdateDeletes(newQuantity)
    THEN FilterOut(prevOrder, itemId, itemCustomizationNotes)
    ELSE MapQuantity(prevOrder,
                     Matches(prevOrder, itemId, itemCustomizationNotes),
                     [i \in 1..Len(prevOrder) |-> newQuantity])

handleRemoveOrderItem(prevOrder, itemId, itemCustomizationNotes) ==
    FilterOut(prevOrder, itemId, itemCustomizationNotes)

-----------------------------------------------------------------------------
(* Messages *)

\* getItemNameWithPieces: name, " (N pc[s])" when pieces, " (Custom: notes)" when notes
getItemNameWithPieces(item) ==
    [name |-> ItemOf(item.id).name,
     pieces |-> ItemOf(item.id).pieces,
     plural |-> ItemOf(item.id).pieces > 1,
     custom |-> OrEmpty(item.notes)]

Increased(name, by) == [kind |-> "Increased quantity of", item |-> name, by |-> by]
Changed(plain, qty, to, name) ==
    [kind |-> "Changed", from |-> plain, initially |-> qty, to |-> to, item |-> name]
Added(qty, name) == [kind |-> "Added", qty |-> qty, item |-> name]
RemovedAll(name) == [kind |-> "Removed all", item |-> name]
ReducedBy(name, by) == [kind |-> "Reduced", item |-> name, by |-> by]
CouldNotFind(names) == [kind |-> "Could not find", names |-> names]
CouldNotProcessRemovals(entries) == [kind |-> "Could not process removals for", entries |-> entries]
CouldNotIdentifyToAdd == [kind |-> "I couldn't identify any items from your request to add to the order."]
CouldNotIdentifyToRemove == [kind |-> "I couldn't identify any items from your request to remove."]
NotOnMenu(name) == [name |-> name, why |-> "not on menu"]
NotInOrder(name, notes) ==
    [name |-> name, custom |-> notes, why |-> "not in current order or exact customization not found"]

-----------------------------------------------------------------------------
(* handleMultiItemOrder *)

\* activeMenuItems.find(item => item.name.toLowerCase() === itemName.toLowerCase().trim()),
\* as a position; 0 when there is none
FindMenuItem(menu, itemName) ==
    FindIndex([i \in 1..Len(menu) |->
                ToLowerCase(menu[i].name) = Trim(ToLowerCase(itemName))])

\* the state of the loop over the batch
OrderStart(prevOrder) ==
    [workingOrder |-> prevOrder, src |-> Identity(Len(prevOrder)), prev |-> prevOrder,
     itemsActuallyProcessed |-> FALSE, notFoundItems |-> <<>>, actionMessages |-> <<>>,
     transformed |-> FALSE]

IncrementInPlace_Overwrite(w, idx, q) ==
    [w EXCEPT !.workingOrder[idx].quantity = q,
              !.prev = IF w.src[idx] = 0 THEN @
                       ELSE [@ EXCEPT ![w.src[idx]].quantity = q]]

\* workingOrder[idx].quantity += q: the object is changed where it is, so the
\* previous array sees the change when the object is one of its own
IncrementInPlace(w, idx, q) ==
    [w EXCEPT !.workingOrder[idx].quantity = @ + q,
              !.prev = IF w.src[idx] = 0 THEN @
                       ELSE [@ EXCEPT ![w.src[idx]].quantity = @ + q]]

RemoveAt(s, idx) == SubSeq(s, 1, idx - 1) \o SubSeq(s, idx + 1, Len(s))

\* workingOrder.splice(idx, 1)
Splice(w, idx) ==
    [w EXCEPT !.workingOrder = RemoveAt(@, idx), !.src = RemoveAt(@, idx)]

\* workingOrder.push({...menuItem, quantity, customizationNotes})
Push(w, line) ==
    [w EXCEPT !.workingOrder = Append(@, line), !.src = Append(@, 0)]

Say(w, message) == [w EXCEPT !.actionMessages = Append(@, message)]

Transform_KeepPlainQuantity(w, menuItem, plainItemIndex, incomingNotes, incomingQuantity) ==
    LET plain == w.workingOrder[plainItemIndex]
        spliced == Splice(w, plainItemIndex)
    IN  Say([Push(spliced, Line(menuItem.id, incomingNotes, plain.quantity + incomingQuantity))
                EXCEPT !.transformed = TRUE],
            Changed(getItemNameWithPieces(plain), plain.quantity, incomingQuantity,
                    getItemNameWithPieces(Line(menuItem.id, incomingNotes, 0))))

\* lines 182-195: the plain line is taken out and the customized line takes its place
Transform(w, menuItem, plainItemIndex, incomingNotes, incomingQuantity) ==
    LET plainItemBeingTransformed == w.workingOrder[plainItemIndex]
        spliced == Splice(w, plainItemIndex)
        existingCustomizedItemIndex ==
            FindIndex(Matches(spliced.workingOrder, menuItem.id, incomingNotes))
        merged == IF existingCustomizedItemIndex > 0
                  THEN IncrementInPlace(spliced, existingCustomizedItemIndex, incomingQuantity)
                  ELSE Push(spliced, Line(menuItem.id, incomingNotes, incomingQuantity))
    IN  Say([merged EXCEPT !.transformed = TRUE],
            Changed(getItemNameWithPieces(plainItemBeingTransformed),
                    plainItemBeingTransformed.quantity, incomingQuantity,
                    getItemNameWithPieces(Line(menuItem.id, incomingNotes, 0))))

\* lines 158-200: one request of the batch
OrderStep(w, order, menu) ==
    LET found == FindMenuItem(menu, order.itemName)
        menuItem == menu[found]
        incomingNotes == OrEmpty(order.customizationNotes)
        incomingQuantity == order.quantity
        itemNameWithIncomingNotes == getItemNameWithPieces(Line(menuItem.id, incomingNotes, 0))
        p == [w EXCEPT !.itemsActuallyProcessed = TRUE]
        exactMatchIndex == FindIndex(Matches(p.workingOrder, menuItem.id, incomingNotes))
        plainItemIndex ==
            FindIndex([i \in 1..Len(p.workingOrder) |->
                        IsPlainLine(p.workingOrder[i], menuItem.id)])
    IN  IF found = 0
        THEN [w EXCEPT !.notFoundItems = Append(@, order.itemName)]
        ELSE IF exactMatchIndex > 0
        THEN Say(IncrementInPlace(p, exactMatchIndex, incomingQuantity),
                 Increased(itemNameWithIncomingNotes, incomingQuantity))
        ELSE IF incomingNotes # "" /\ plainItemIndex > 0
        THEN Transform(p, menuItem, plainItemIndex, incomingNotes, incomingQuantity)
        ELSE Say(Push(p, Line(menuItem.id, incomingNotes, incomingQuantity)),
                 Added(incomingQuantity, itemNameWithIncomingNotes))

RECURSIVE OrderLoop(_, _, _)
OrderLoop(w, orders, menu) ==
    IF orders = <<>> THEN w
    ELSE OrderLoop(OrderStep(w, Head(orders), menu), Tail(orders), menu)

OrderSink_AlwaysGeneric(w, orders) ==
    (IF Len(w.notFoundItems) > 0 THEN <<CouldNotFind(w.notFoundItems)>> ELSE <<>>)
    \o (IF ~w.itemsActuallyProcessed /\ Len(orders) > 0
        THEN <<CouldNotIdentifyToAdd>> ELSE <<>>)

\* lines 203-210: what the sink is called with
OrderSink(w, orders) ==
    (IF Len(w.notFoundItems) > 0 THEN <<CouldNotFind(w.notFoundItems)>> ELSE <<>>)
    \o (IF ~w.itemsActuallyProcessed /\ Len(w.notFoundItems) = 0 /\ Len(orders) > 0
        THEN <<CouldNotIdentifyToAdd>> ELSE <<>>)

\* the reducer handed to setOrderItems, and what it tells the sink if there is one
handleMultiItemOrder(prevOrder, orders, hasSink, menu) ==
    LET w == OrderLoop(OrderStart(prevOrder), orders, menu)
    IN  [order |-> w.workingOrder, src |-> w.src, prev |-> w.prev,
         sent |-> IF hasSink THEN OrderSink(w, orders) ELSE <<>>,
         built |-> w.actionMessages,
         transformed |-> w.transformed]

-----------------------------------------------------------------------------
(* handleMultiItemRemoval *)

RemovalStart(prevOrder) ==
    [workingOrder |-> prevOrder, src |-> Identity(Len(prevOrder)), prev |-> prevOrder,
     itemsActuallyProcessed |-> FALSE, notFoundOrNotInOrder |-> <<>>,
     removedItemsMessages |-> <<>>]

RemovesLine_Strict(quantityToRemove, quantity) == quantityToRemove > quantity

\* quantityToRemove >= itemInOrder.quantity
RemovesLine(quantityToRemove, quantity) == quantityToRemove >= quantity

\* workingOrder.filter((_, index) => index !== idx)
DropAt(w, idx) ==
    [w EXCEPT !.workingOrder = RemoveAt(@, idx), !.src = RemoveAt(@, idx)]

ReplaceWithLess_ByOne(w, idx, q) ==
    [w EXCEPT !.workingOrder[idx].quantity = @ - 1, !.src[idx] = 0]

\* workingOrder.map((oi, index) => index === idx ? {...oi, quantity: oi.quantity - q} : oi)
ReplaceWithLess(w, idx, q) ==
    [w EXCEPT !.workingOrder[idx].quantity = @ - q, !.src[idx] = 0]

\* lines 226-255: one request of the batch
RemovalStep(w, removal, menu) ==
    LET found == FindMenuItem(menu, removal.itemName)
        menuItem == menu[found]
        notes == OrEmpty(removal.customizationNotes)
        existingItemIndex == FindIndex(Matches(w.workingOrder, menuItem.id, notes))
        itemInOrder == w.workingOrder[existingItemIndex]
        quantityToRemove == removal.quantity
        itemNameForMessage == getItemNameWithPieces(itemInOrder)
        p == [w EXCEPT !.itemsActuallyProcessed = TRUE]
    IN  IF found = 0
        THEN [w EXCEPT !.notFoundOrNotInOrder = Append(@, NotOnMenu(removal.itemName))]
        ELSE IF existingItemIndex = 0
        THEN [w EXCEPT !.notFoundOrNotInOrder = Append(@, NotInOrder(menuItem.name, notes))]
        ELSE IF RemovesLine(quantityToRemove, itemInOrder.quantity)
        THEN [DropAt(p, existingItemIndex)
                EXCEPT !.removedItemsMessages = Append(@, RemovedAll(itemNameForMessage))]
        ELSE [ReplaceWithLess(p, existingItemIndex, quantityToRemove)
                EXCEPT !.removedItemsMessages = Append(@, ReducedBy(itemNameForMessage, quantityToRemove))]

RECURSIVE RemovalLoop(_, _, _)
RemovalLoop(w, removals, menu) ==
    IF removals = <<>> THEN w
    ELSE RemovalLoop(RemovalStep(w, Head(removals), menu), Tail(removals), menu)

RemovalSink_OnePerEntry(w, removals) ==
    [i \in 1..Len(w.notFoundOrNotInOrder) |->
        CouldNotProcessRemovals(<<w.notFoundOrNotInOrder[i]>>)]

RemovalSink_GenericWhenNoneApplied(w, removals) ==
    (IF Len(w.notFoundOrNotInOrder) > 0
     THEN <<CouldNotProcessRemovals(w.notFoundOrNotInOrder)>> ELSE <<>>)
    \o (IF ~w.itemsActuallyProcessed /\ Len(removals) > 0
        THEN <<CouldNotIdentifyToRemove>> ELSE <<>>)

\* lines 258-265: what the sink is called with
RemovalSink(w, removals) ==
    (IF Len(w.notFoundOrNotInOrder) > 0
     THEN <<CouldNotProcessRemovals(w.notFoundOrNotInOrder)>> ELSE <<>>)
    \o (IF ~w.itemsActuallyProcessed /\ Len(w.notFoundOrNotInOrder) = 0 /\ Len(removals) > 0
        THEN <<CouldNotIdentifyToRemove>> ELSE <<>>)

handleMultiItemRemoval(prevOrder, removals, hasSink, menu) ==
    LET w == RemovalLoop(RemovalStart(prevOrder), removals, menu)
    IN  [order |-> w.workingOrder, src |-> w.src, prev |-> w.prev,
         sent |-> IF hasSink THEN RemovalSink(w, removals) ELSE <<>>,
         built |-> w.removedItemsMessages,
         transformed |-> FALSE]

-----------------------------------------------------------------------------
(* The bill *)

NoBill == [none |-> TRUE]

RECURSIVE SumLines(_)
SumLines(items) ==
    IF items = <<>> THEN 0
    ELSE SumLines(SubSeq(items, 1, Len(items) - 1))
         + parsePrice(ItemOf(items[Len(items)].id).price) * items[Len(items)].quantity

calculateSubtotal_PricesOnly(currentOrderItems) ==
    formatPrice(SumLines([i \in 1..Len(currentOrderItems) |->
                            [currentOrderItems[i] EXCEPT !.quantity = 1]]))

\* lines 108-113
calculateSubtotal(currentOrderItems) == formatPrice(SumLines(currentOrderItems))

BillOf_TaxTwice(items, table) ==
    LET subtotalNum == parsePrice(calculateSubtotal(items))
        gstAmountNum == (subtotalNum * GST_RATE_PERCENT) \div 100
        grandTotalNum == subtotalNum + 2 * gstAmountNum
    IN  [items |-> [i \in 1..Len(items) |->
                        [id |-> items[i].id, notes |-> items[i].notes,
                         quantity |-> items[i].quantity, alias |-> i]],
         subtotal |-> formatPrice(subtotalNum),
         gstAmount |-> formatPrice(gstAmountNum),
         grandTotal |-> formatPrice(grandTotalNum),
         tableNumber |-> table]

\* lines 288-298: the Bill of a ledger; each item is the ledger's own object
BillOf(items, table) ==
    LET subtotalNum == parsePrice(calculateSubtotal(items))
        gstAmountNum == (subtotalNum * GST_RATE_PERCENT) \div 100
        grandTotalNum == subtotalNum + gstAmountNum
    IN  [items |-> [i \in 1..Len(items) |->
                        [id |-> items[i].id, notes |-> items[i].notes,
                         quantity |-> items[i].quantity, alias |-> i]],
         subtotal |-> formatPrice(subtotalNum),
         gstAmount |-> formatPrice(gstAmountNum),
         grandTotal |-> formatPrice(grandTotalNum),
         tableNumber |-> table]

\* the Bill after a reducer has run: an item that is an object of the previous
\* ledger holds what that object holds now, and is found where the new ledger
\* keeps that object, if it does
BillAfter(bill, r) ==
    IF bill = NoBill THEN bill
    ELSE [bill EXCEPT !.items =
            [k \in 1..Len(bill.items) |->
                LET it == bill.items[k]
                    now == r.prev[it.alias]
                IN  IF it.alias = 0 THEN it
                    ELSE [id |-> now.id, notes |-> now.notes, quantity |-> now.quantity,
                          alias |-> FindIndex([j \in 1..Len(r.src) |-> r.src[j] = it.alias])]]]

BillIsValid_ItemsOnly(bill) ==
    /\ bill # NoBill
    /\ Len(bill.items) > 0

\* lines 307-313: the check that lets a Bill be written
BillIsValid(bill) ==
    /\ bill # NoBill
    /\ Len(bill.items) > 0
    /\ ~isNaN(NumberOf(bill.subtotal))
    /\ ~isNaN(NumberOf(bill.gstAmount))
    /\ ~isNaN(NumberOf(bill.grandTotal))

\* lines 316-329: the document handed to addDoc
BillDocument(bill) ==
    [items |-> [i \in 1..Len(bill.items) |->
                    [id |-> bill.items[i].id, notes |-> bill.items[i].notes,
                     quantity |-> bill.items[i].quantity]],
     subtotal |-> bill.subtotal, gstAmount |-> bill.gstAmount,
     grandTotal |-> bill.grandTotal, tableNumber |-> bill.tableNumber,
     status |-> "pending", timestamp |-> "now"]

-----------------------------------------------------------------------------
(* Inputs *)

NotesIn == {Undefined, "", NoOnion}

\* names as a guest may say them: two that are on the menu, two that are not
RequestNames ==
    { <<"b","u","r","g","e","r"," ">>, <<"F","R","I","E","S">>,
      <<"P","a","s","t","a">>, <<"S","o","d","a">> }

RequestsOf(names, notes) ==
    [itemName : names, quantity : 1..MaxQty, customizationNotes : notes]

BatchesOf(requests, n) == UNION {[1..k -> requests] : k \in 0..n}

\* what the guest may have typed into the table number field
TableInputs == { <<"7">>, <<"0">>, <<>>, <<"1",".","5">> }

\* what localStorage may hold under 'fireFroastMenu': nothing, a string that is
\* not JSON, JSON that is no array, or an array
Absent == [json |-> "null"]
Corrupt == [json |-> "not JSON"]
NotArray == [json |-> "object"]
Stored(items) == [json |-> "array", items |-> items]

\* what parseMenuItemsFromExcel may come to: a list, or an exception.  part_000
\* calls it on line 70 and neither defines nor imports it; where it does not
\* exist the call throws
Parsed(items) == [items |-> items]
Throws == [threw |-> TRUE]

\* a menu.xlsx that lists one item only, the second of the built-in menu
MENU_XLSX == <<DEFAULT_MENU_ITEMS[2]>>

EmptyFileMessage == "The menu.xlsx file is empty or invalid. Using default menu."
FailedMessage == "Failed to load menu from Excel file: ... Using default built-in menu."

NoDoc == [none |-> TRUE]
NoError == "null"

-----------------------------------------------------------------------------
(* The application *)

Init ==
    /\ currentPage = "welcome"
    /\ orderItems = <<>>
    /\ currentBillData = NoBill
    /\ tableNumber = <<>>
    /\ activeMenuItems = <<>>
    /\ menuLoadingError = NoError
    /\ isMenuLoading = TRUE
    /\ storedMenuJson = Absent
    /\ loadMenuAt = "start"
    /\ isSubmitting = FALSE
    /\ inFlight = NoDoc
    /\ bills = <<>>
    /\ formError = ""
    /\ last = [op |-> "none"]

IsStoredMenu_AnyArray(storedMenu) == storedMenu.json = "array"

\* line 56: Array.isArray(storedMenu) && storedMenu.length > 0
IsStoredMenu(storedMenu) == storedMenu.json = "array" /\ Len(storedMenu.items) > 0

\* lines 73-75, and lines 84-86 of the catch, each followed by the finally of
\* line 88; localStorage.setItem is taken to succeed
UseDefault(message) ==
    /\ menuLoadingError' = message
    /\ activeMenuItems' = DEFAULT_MENU_ITEMS
    /\ storedMenuJson' = Stored(DEFAULT_MENU_ITEMS)
    /\ isMenuLoading' = FALSE
    /\ loadMenuAt' = "done"
    /\ last' = [op |-> "loadMenu", from |-> "default"]

\* an await that settled well: the effect goes on to its next await
AwaitNext(at) ==
    /\ loadMenuAt' = at
    /\ last' = [op |-> "loadMenu", from |-> "pending"]
    /\ UNCHANGED <<activeMenuItems, isMenuLoading, storedMenuJson>>

\* lines 48-65: the effect, up to the await of fetch
loadMenu ==
    /\ loadMenuAt = "start"
    /\ IF storedMenuJson = Corrupt
       THEN UseDefault(FailedMessage)
       ELSE IF storedMenuJson # Absent /\ IsStoredMenu(storedMenuJson)
       THEN /\ activeMenuItems' = storedMenuJson.items
            /\ isMenuLoading' = FALSE
            /\ menuLoadingError' = NoError
            /\ loadMenuAt' = "done"
            /\ last' = [op |-> "loadMenu", from |-> "cache"]
            /\ UNCHANGED storedMenuJson
       ELSE /\ menuLoadingError' = NoError
            /\ AwaitNext("fetch")
    /\ UNCHANGED <<currentPage, orderItems, currentBillData, tableNumber,
                   isSubmitting, inFlight, bills, formError>>

\* lines 65-69: fetch has settled
fetchSettled(response) ==
    /\ loadMenuAt = "fetch"
    /\ IF response = "ok"
       THEN AwaitNext("arrayBuffer") /\ UNCHANGED menuLoadingError
       ELSE UseDefault(FailedMessage)
    /\ UNCHANGED <<currentPage, orderItems, currentBillData, tableNumber,
                   isSubmitting, inFlight, bills, formError>>

\* lines 69-70: response.arrayBuffer() has settled
arrayBufferSettled(outcome) ==
    /\ loadMenuAt = "arrayBuffer"
    /\ IF outcome = "ok"
       THEN AwaitNext("parse") /\ UNCHANGED menuLoadingError
       ELSE UseDefault(FailedMessage)
    /\ UNCHANGED <<currentPage, orderItems, currentBillData, tableNumber,
                   isSubmitting, inFlight, bills, formError>>

\* lines 70-88: parseMenuItemsFromExcel has settled
parseMenuItemsFromExcelSettled(parsed) ==
    /\ loadMenuAt = "parse"
    /\ IF parsed = Throws
       THEN UseDefault(FailedMessage)
       ELSE IF Len(parsed.items) = 0
       THEN UseDefault(EmptyFileMessage)
       ELSE /\ activeMenuItems' = parsed.items
            /\ storedMenuJson' = Stored(parsed.items)
            /\ isMenuLoading' = FALSE
            /\ loadMenuAt' = "done"
            /\ last' = [op |-> "loadMenu", from |-> "file"]
            /\ UNCHANGED menuLoadingError
    /\ UNCHANGED <<currentPage, orderItems, currentBillData, tableNumber,
                   isSubmitting, inFlight, bills, formError>>

\* the effect and its awaits, menu.xlsx parsing to one of `files`
Loading(files) ==
    \/ loadMenu
    \/ \E response \in {"ok", "not ok", "rejected"} : fetchSettled(response)
    \/ \E outcome \in {"ok", "rejected"} : arrayBufferSettled(outcome)
    \/ \E parsed \in files : parseMenuItemsFromExcelSettled(parsed)

\* lines 270-277
navigateToTableNumberEntryFromWelcome ==
    /\ currentPage = "welcome"
    /\ IF isMenuLoading \/ Len(activeMenuItems) = 0
       THEN /\ menuLoadingError' = "Menu is still loading or not available. Please wait."
            /\ UNCHANGED currentPage
       ELSE /\ menuLoadingError' = NoError
            /\ currentPage' = "tableNumberEntry"
    /\ last' = [op |-> "startExploring"]
    /\ UNCHANGED <<orderItems, currentBillData, tableNumber, activeMenuItems,
                   isMenuLoading, storedMenuJson, loadMenuAt, isSubmitting, inFlight, bills, formError>>

\* part_001 line 14: the table number must be a whole number above zero
TableNumberIsValid(text) ==
    LET num == NumberOf(text)
    IN  ~(Trim(text) = <<>> \/ isNaN(num) \/ num <= 0 \/ num % Unit # 0)

\* part_001 lines 11-20 and part_000 lines 279-282
handleSubmit(text) ==
    /\ currentPage = "tableNumberEntry"
    /\ IF TableNumberIsValid(text)
       THEN /\ formError' = ""
            /\ tableNumber' = Trim(text)
            /\ currentPage' = "chat"
       ELSE /\ formError' = "Please enter a valid whole table number."
            /\ UNCHANGED <<tableNumber, currentPage>>
    /\ last' = [op |-> "tableNumber"]
    /\ UNCHANGED <<orderItems, currentBillData, activeMenuItems, menuLoadingError,
                   isMenuLoading, storedMenuJson, loadMenuAt, isSubmitting, inFlight, bills>>

\* ChatPage is shown, so its callbacks can be called (line 379)
ChatPageShown ==
    currentPage = "chat" /\ ~isMenuLoading /\ Len(activeMenuItems) > 0

\* how a specification runs the ledger's handlers: how long it lets the ledger
\* grow and whether `last` tells the handlers apart
App == [maxLines |-> MaxAppLines, maxQty |-> MaxQty, watch |-> "nothing",
        notes |-> {Undefined, NoOnion},
        names |-> {<<"b","u","r","g","e","r"," ">>, <<"F","R","I","E","S">>, <<"S","o","d","a">>},
        updates |-> 0..MaxQty]
Ledger == [maxLines |-> MaxLines, maxQty |-> MaxQty, watch |-> "handler",
           notes |-> NotesIn, names |-> RequestNames, updates |-> (0 - 1)..MaxQty]
Menu == [maxLines |-> MaxMenuLines, maxQty |-> MaxQty, watch |-> "nothing",
         notes |-> {Undefined, NoOnion},
         names |-> {<<"b","u","r","g","e","r"," ">>, <<"F","R","I","E","S">>},
         updates |-> 0..MaxQty]
Reducer == [maxLines |-> MaxStartLines + MaxBatch, maxQty |-> MaxQty * (MaxBatch + 1),
            watch |-> "call", notes |-> {Undefined, NoOnion}, names |-> RequestNames]

WithinBounds(order, mode) ==
    /\ Len(order) <= mode.maxLines
    /\ \A i \in 1..Len(order) : order[i].quantity <= mode.maxQty

\* what `last` keeps of a call of a handler: when the handler is watched, which
\* it was and how many lines fewer the ledger has after it
Seen(op, mode, r) ==
    IF mode.watch = "nothing" THEN [op |-> "ledger"]
    ELSE [op |-> op, dropped |-> Len(orderItems) - Len(r.order)]

\* what `last` keeps of a call of a batch handler: when the call is watched, the
\* batch, the ledger it was applied to and what the objects of that ledger hold
\* after the call, the messages the handler built and those it sent to the sink,
\* and the same of an additions batch applied just before
SeenBatch(op, mode, requests, hasSink, r) ==
    IF mode.watch # "call" THEN Seen(op, mode, r)
    ELSE [op |-> op, requests |-> requests, hasSink |-> hasSink, before |-> orderItems,
          prevOrder |-> r.prev,
          sent |-> r.sent, built |-> r.built, transformed |-> r.transformed,
          earlier |-> IF last.op = "order"
                      THEN [op |-> "order", requests |-> last.requests,
                            before |-> last.before, transformed |-> last.transformed]
                      ELSE [op |-> last.op]]

\* setOrderItems(reducer): the ledger is replaced by what the reducer returns;
\* the Bill's items are the objects they were
SetOrderItems(r, seen) ==
    /\ orderItems' = r.order
    /\ currentBillData' = BillAfter(currentBillData, r)
    /\ last' = seen
    /\ UNCHANGED <<currentPage, tableNumber, activeMenuItems, menuLoadingError,
                   isMenuLoading, storedMenuJson, loadMenuAt, isSubmitting, inFlight, bills, formError>>

\* line 384
AddItemToOrder(item, quantity, notes, mode) ==
    LET r == handleAddItemToOrder(orderItems, item, quantity, notes)
    IN  /\ ChatPageShown
        /\ WithinBounds(r.order, mode)
        /\ SetOrderItems(r, Seen("add", mode, r))

\* line 385
UpdateOrderItemQuantity(itemId, newQuantity, notes, mode) ==
    LET r == handleUpdateOrderItemQuantity(orderItems, itemId, newQuantity, notes)
    IN  /\ ChatPageShown
        /\ SetOrderItems(r, Seen("update", mode, r))

\* line 386
RemoveOrderItem(itemId, notes, mode) ==
    LET r == handleRemoveOrderItem(orderItems, itemId, notes)
    IN  /\ ChatPageShown
        /\ SetOrderItems(r, Seen("remove", mode, r))

\* line 387
MultiItemOrder(orders, hasSink, mode) ==
    LET r == handleMultiItemOrder(orderItems, orders, hasSink, activeMenuItems)
    IN  /\ ChatPageShown
        /\ WithinBounds(r.order, mode)
        /\ SetOrderItems(r, SeenBatch("order", mode, orders, hasSink, r))

\* line 388
MultiItemRemoval(removals, hasSink, mode) ==
    LET r == handleMultiItemRemoval(orderItems, removals, hasSink, activeMenuItems)
    IN  /\ ChatPageShown
        /\ SetOrderItems(r, SeenBatch("removal", mode, removals, hasSink, r))

handleCheckoutAndGoToBill_NoGuard ==
    /\ ChatPageShown
    /\ currentBillData' = BillOf(orderItems, tableNumber)
    /\ currentPage' = "bill"
    /\ last' = [op |-> "checkout", returned |-> TRUE]
    /\ UNCHANGED <<orderItems, tableNumber, activeMenuItems, menuLoadingError,
                   isMenuLoading, storedMenuJson, loadMenuAt, isSubmitting, inFlight, bills, formError>>

\* lines 284-301
handleCheckoutAndGoToBill ==
    /\ ChatPageShown
    /\ IF Len(orderItems) = 0
       THEN UNCHANGED <<currentBillData, currentPage>>
       ELSE /\ currentBillData' = BillOf(orderItems, tableNumber)
            /\ currentPage' = "bill"
    /\ last' = [op |-> "checkout", returned |-> Len(orderItems) # 0]
    /\ UNCHANGED <<orderItems, tableNumber, activeMenuItems, menuLoadingError,
                   isMenuLoading, storedMenuJson, loadMenuAt, isSubmitting, inFlight, bills, formError>>

\* BillPage is shown (line 403)
BillPageShown == currentPage = "bill" /\ currentBillData # NoBill

\* line 407
navigateToChat ==
    /\ BillPageShown
    /\ currentPage' = "chat"
    /\ last' = [op |-> "backToChat"]
    /\ UNCHANGED <<orderItems, currentBillData, tableNumber, activeMenuItems,
                   menuLoadingError, isMenuLoading, storedMenuJson, loadMenuAt, isSubmitting, inFlight, bills,
                   formError>>

\* lines 305-344, up to the await of line 324
handleConfirmOrderAndGoToFinalConfirmation ==
    /\ BillPageShown
    /\ IF isSubmitting
       THEN /\ last' = [op |-> "confirm", did |-> "dropped"]
            /\ UNCHANGED <<isSubmitting, inFlight, currentPage>>
       ELSE IF BillIsValid(currentBillData)
       THEN /\ isSubmitting' = TRUE
            /\ inFlight' = BillDocument(currentBillData)
            /\ last' = [op |-> "confirm", did |-> "submitted"]
            /\ UNCHANGED currentPage
       ELSE /\ currentPage' = "finalConfirmation"
            /\ last' = [op |-> "confirm", did |-> "skipped with a warning"]
            /\ UNCHANGED <<isSubmitting, inFlight>>
    /\ UNCHANGED <<orderItems, currentBillData, tableNumber, activeMenuItems,
                   menuLoadingError, isMenuLoading, storedMenuJson, loadMenuAt, bills, formError>>

\* The two continuations of the awaited addDoc.  Both need a write in flight,
\* and handleConfirmOrderAndGoToFinalConfirmation starts one only for a Bill
\* that passes lines 307-313.  No Bill made by handleCheckoutAndGoToBill does
\* (see C4), so neither step is enabled in any state of Spec and Next does not
\* list them.
\* lines 331-333 and 338: addDoc resolved
addDocResolved ==
    /\ inFlight # NoDoc
    /\ bills' = Append(bills, inFlight)
    /\ inFlight' = NoDoc
    /\ orderItems' = <<>>
    /\ currentBillData' = BillAfter(currentBillData, Reduced(<<>>, <<>>, orderItems))
    /\ currentPage' = "finalConfirmation"
    /\ isSubmitting' = FALSE
    /\ last' = [op |-> "written"]
    /\ UNCHANGED <<tableNumber, activeMenuItems, menuLoadingError, isMenuLoading, storedMenuJson, loadMenuAt,
                   formError>>

\* lines 334-338: addDoc rejected
addDocRejected ==
    /\ inFlight # NoDoc
    /\ inFlight' = NoDoc
    /\ isSubmitting' = FALSE
    /\ last' = [op |-> "alert", text |-> "Failed to send order to kitchen."]
    /\ UNCHANGED <<currentPage, orderItems, currentBillData, tableNumber,
                   activeMenuItems, menuLoadingError, isMenuLoading, storedMenuJson, loadMenuAt, bills, formError>>

handleStartNewOrderFromFinalConfirmation_KeepsLedger ==
    /\ currentPage = "finalConfirmation"
    /\ currentBillData' = NoBill
    /\ tableNumber' = <<>>
    /\ currentPage' = "welcome"
    /\ last' = [op |-> "startNewOrder"]
    /\ UNCHANGED <<orderItems, activeMenuItems, menuLoadingError, isMenuLoading, storedMenuJson, loadMenuAt,
                   isSubmitting, inFlight, bills, formError>>

\* lines 351-356
handleStartNewOrderFromFinalConfirmation ==
    /\ currentPage = "finalConfirmation"
    /\ currentBillData' = NoBill
    /\ orderItems' = <<>>
    /\ tableNumber' = <<>>
    /\ currentPage' = "welcome"
    /\ last' = [op |-> "startNewOrder"]
    /\ UNCHANGED <<activeMenuItems, menuLoadingError, isMenuLoading, storedMenuJson, loadMenuAt, isSubmitting,
                   inFlight, bills, formError>>

\* what the guest does on the chat page
Ordering(mode) ==
    \/ \E i \in 1..Len(activeMenuItems), q \in 1..MaxQty, n \in mode.notes :
            AddItemToOrder(activeMenuItems[i], q, n, mode)
    \/ \E id \in ItemIds, q \in mode.updates, n \in mode.notes :
            UpdateOrderItemQuantity(id, q, n, mode)
    \/ \E id \in ItemIds, n \in mode.notes : RemoveOrderItem(id, n, mode)
    \/ \E orders \in BatchesOf(RequestsOf(mode.names, mode.notes), MaxAppBatch) :
            MultiItemOrder(orders, TRUE, mode)
    \/ \E removals \in BatchesOf(RequestsOf(mode.names, mode.notes), MaxAppBatch) :
            MultiItemRemoval(removals, TRUE, mode)

Next ==
    \/ Loading({Parsed(DEFAULT_MENU_ITEMS), Parsed(<<>>), Throws})
    \/ navigateToTableNumberEntryFromWelcome
    \/ \E text \in TableInputs : handleSubmit(text)
    \/ Ordering(App)
    \/ handleCheckoutAndGoToBill
    \/ navigateToChat
    \/ handleConfirmOrderAndGoToFinalConfirmation
    \/ handleStartNewOrderFromFinalConfirmation

Spec == Init /\ [][Next]_vars

-----------------------------------------------------------------------------
(* The ledger alone: the guest has reached the chat page and only orders *)

InitChat ==
    /\ currentPage = "chat"
    /\ orderItems = <<>>
    /\ currentBillData = NoBill
    /\ tableNumber = <<"7">>
    /\ activeMenuItems = DEFAULT_MENU_ITEMS
    /\ menuLoadingError = NoError
    /\ isMenuLoading = FALSE
    /\ storedMenuJson = Stored(DEFAULT_MENU_ITEMS)
    /\ loadMenuAt = "done"
    /\ isSubmitting = FALSE
    /\ inFlight = NoDoc
    /\ bills = <<>>
    /\ formError = ""
    /\ last = [op |-> "tableNumber"]

NextLedger == Ordering(Ledger)

SpecLedger == InitChat /\ [][NextLedger]_vars

-----------------------------------------------------------------------------
(* The loading of the menu: the guest is on the welcome page, and what the   *)
(* cache holds and what the file gives are whatever they may be; once on the *)
(* chat page the guest orders from the menu that was loaded.  The effect     *)
(* runs once the page is mounted and each of its awaits settles              *)

StoredMenus ==
    {Absent, Corrupt, NotArray, Stored(<<>>), Stored(DEFAULT_MENU_ITEMS), Stored(MENU_XLSX)}

MenuFiles == {Parsed(MENU_XLSX), Parsed(<<>>), Throws}

InitMenu ==
    /\ currentPage = "welcome"
    /\ orderItems = <<>>
    /\ currentBillData = NoBill
    /\ tableNumber = <<>>
    /\ activeMenuItems = <<>>
    /\ menuLoadingError = NoError
    /\ isMenuLoading = TRUE
    /\ storedMenuJson \in StoredMenus
    /\ loadMenuAt = "start"
    /\ isSubmitting = FALSE
    /\ inFlight = NoDoc
    /\ bills = <<>>
    /\ formError = ""
    /\ last = [op |-> "none"]

NextMenu ==
    \/ Loading(MenuFiles)
    \/ navigateToTableNumberEntryFromWelcome
    \/ \E text \in TableInputs : handleSubmit(text)
    \/ Ordering(Menu)

SpecMenu == InitMenu /\ [][NextMenu]_vars /\ WF_vars(Loading(MenuFiles))

-----------------------------------------------------------------------------
(* The batch reducers alone: one batch applied to a ledger the guest has      *)
(* built, and, after an additions batch, the removal of what it added        *)

Lines == [id : ItemIds, notes : NotesIn, quantity : 1..MaxQty]

\* the ledgers the handlers build: no two lines for an item and its notes
StartLedgers ==
    {order \in UNION {[1..k -> Lines] : k \in 0..MaxStartLines} :
        \A i, j \in 1..Len(order) :
            i # j => ~SameLine(order[i], order[j].id, order[j].notes)}

InitReducer ==
    /\ currentPage = "chat"
    /\ orderItems \in StartLedgers
    /\ currentBillData = NoBill
    /\ tableNumber = <<"7">>
    /\ activeMenuItems = DEFAULT_MENU_ITEMS
    /\ menuLoadingError = NoError
    /\ isMenuLoading = FALSE
    /\ storedMenuJson = Stored(DEFAULT_MENU_ITEMS)
    /\ loadMenuAt = "done"
    /\ isSubmitting = FALSE
    /\ inFlight = NoDoc
    /\ bills = <<>>
    /\ formError = ""
    /\ last = [op |-> "start"]

NextReducer ==
    \/ /\ last.op = "start"
       /\ \E orders \in BatchesOf(RequestsOf(Reducer.names, Reducer.notes), MaxBatch),
             hasSink \in BOOLEAN :
            MultiItemOrder(orders, hasSink, Reducer)
    \/ /\ last.op = "start"
       /\ \E removals \in BatchesOf(RequestsOf(Reducer.names, Reducer.notes), MaxBatch),
             hasSink \in BOOLEAN :
            MultiItemRemoval(removals, hasSink, Reducer)
    \/ /\ last.op = "order"
       /\ MultiItemRemoval(last.requests, last.hasSink, Reducer)

SpecReducer == InitReducer /\ [][NextReducer]_vars

-----------------------------------------------------------------------------
(* What the claims speak of *)

\* absent and empty notes are the one value "plain"
Normalized(notes) == IF notes \in {Undefined, ""} THEN "plain" ELSE notes

\* the item a request name stands for, read by a person
Means(itemName) ==
    CASE itemName = <<"b","u","r","g","e","r"," ">> -> "m1"
      [] itemName = <<"F","R","I","E","S">> -> "m2"
      [] OTHER -> "not on the menu"

LinesFor(order, id, normalized) ==
    {i \in 1..Len(order) : order[i].id = id /\ Normalized(order[i].notes) = normalized}

OtherItems(order, id) == SelectSeq(order, LAMBDA line : line.id # id)

LineSet(order) ==
    {<<order[i].id, order[i].notes, order[i].quantity>> : i \in 1..Len(order)}

-----------------------------------------------------------------------------
(* The ledger's invariants, under SpecLedger *)

\* C1: in every ledger reached from the empty ledger by the five handlers, no two
\* lines have the same item id and the same normalized notes
C1_NoTwoLinesShareKey ==
    \A i, j \in 1..Len(orderItems) :
        i # j => ~(/\ orderItems[i].id = orderItems[j].id
                   /\ Normalized(orderItems[i].notes) = Normalized(orderItems[j].notes))

\* an additions batch has left a plain and a customized line of one item side by side
C1_Witness ==
    /\ last.op = "order"
    /\ Len(orderItems) = 3
    /\ \E i, j \in 1..Len(orderItems) :
          /\ i # j
          /\ orderItems[i].id = orderItems[j].id
          /\ Normalized(orderItems[i].notes) = "plain"
          /\ orderItems[j].notes = NoOnion

\* C2: every line of every reachable ledger has a quantity of at least 1, the
\* requests carrying positive quantities and the updates any quantity
C2_QuantitiesPositive ==
    \A i \in 1..Len(orderItems) : orderItems[i].quantity >= 1

\* a quantity update has taken a line out of a ledger that keeps other lines
C2_Witness ==
    /\ last.op = "update"
    /\ last.dropped = 1
    /\ Len(orderItems) >= 1

-----------------------------------------------------------------------------
(* The batch reducers, under SpecReducer *)

\* C6: a single addition of item X with notes n and quantity q to a ledger with a
\* plain line of X and no line (X, n) leaves no plain line of X and exactly one
\* line (X, n), of quantity q; the lines of other items are as they were
C6_TransformDiscardsPlainQuantity ==
    (last.op = "order" /\ Len(last.requests) = 1) =>
        LET req == last.requests[1]
            X == Means(req.itemName)
            n == req.customizationNotes
        IN  (/\ X # "not on the menu"
             /\ n \notin {Undefined, ""}
             /\ LinesFor(last.before, X, "plain") # {}
             /\ LinesFor(last.before, X, n) = {})
            => /\ LinesFor(orderItems, X, "plain") = {}
               /\ Cardinality(LinesFor(orderItems, X, n)) = 1
               /\ \A i \in LinesFor(orderItems, X, n) : orderItems[i].quantity = req.quantity
               /\ OtherItems(orderItems, X) = OtherItems(last.before, X)

\* a plain line of quantity 2 was changed into a customized line of quantity 1,
\* next to a line of the other item
C6_Witness ==
    /\ last.op = "order"
    /\ Len(last.requests) = 1
    /\ last.transformed
    /\ Len(last.before) = 2
    /\ \E i \in LinesFor(last.before, Means(last.requests[1].itemName), "plain") :
          last.before[i].quantity = 2
    /\ last.requests[1].quantity = 1

\* C7: a single removal of quantity r that matches a line of quantity k deletes
\* the line when r >= k and otherwise leaves it with k - r >= 1; no other line
\* changes
C7_RemovalClamp ==
    (last.op = "removal" /\ Len(last.requests) = 1) =>
        LET req == last.requests[1]
            r == req.quantity
        IN  \A i \in LinesFor(last.before, Means(req.itemName),
                              Normalized(req.customizationNotes)) :
                LET k == last.before[i].quantity
                IN  IF r >= k
                    THEN orderItems = SubSeq(last.before, 1, i - 1)
                                      \o SubSeq(last.before, i + 1, Len(last.before))
                    ELSE /\ k - r >= 1
                         /\ orderItems = [last.before EXCEPT ![i].quantity = k - r]

\* a removal of exactly the quantity of a line took it out and left the other line
C7_Witness ==
    /\ last.op = "removal"
    /\ Len(last.requests) = 1
    /\ Len(last.before) = 2
    /\ \E i \in LinesFor(last.before, Means(last.requests[1].itemName),
                         Normalized(last.requests[1].customizationNotes)) :
          last.before[i].quantity = last.requests[1].quantity
    /\ Len(orderItems) = 1

\* C8: an additions batch in which no request triggers the transform rule,
\* followed by the removals batch of the same requests, gives back the ledger's
\* lines (id, notes, quantity), whatever their order
C8_AddThenRemoveRestores ==
    (/\ last.op = "removal"
     /\ last.earlier.op = "order"
     /\ last.requests = last.earlier.requests
     /\ ~last.earlier.transformed)
    => LineSet(orderItems) = LineSet(last.earlier.before)

\* two additions, one raising a line and one adding a line, were taken back
C8_Witness ==
    /\ last.op = "removal"
    /\ last.earlier.op = "order"
    /\ last.requests = last.earlier.requests
    /\ ~last.earlier.transformed
    /\ Len(last.requests) = 2
    /\ Len(last.before) = Len(last.earlier.before) + 1
    /\ LineSet(last.before) \cap LineSet(last.earlier.before) = {}
    /\ LineSet(orderItems) = LineSet(last.earlier.before)

\* C9: a non-empty additions batch none of whose names is on the menu leaves the
\* ledger as it was and sends the sink one message, "Could not find", with the
\* names in the order of the batch, and nothing else
C9_OnlyUnknownNames ==
    (/\ last.op = "order"
     /\ last.hasSink
     /\ Len(last.requests) >= 1
     /\ \A i \in 1..Len(last.requests) :
            Means(last.requests[i].itemName) = "not on the menu")
    => /\ orderItems = last.before
       /\ last.sent = << [kind |-> "Could not find",
                          names |-> [i \in 1..Len(last.requests) |->
                                        last.requests[i].itemName]] >>

\* a batch of two different unknown names was applied to a ledger with a line
C9_Witness ==
    /\ last.op = "order"
    /\ last.hasSink
    /\ Len(last.requests) = 2
    /\ Means(last.requests[1].itemName) = "not on the menu"
    /\ Means(last.requests[2].itemName) = "not on the menu"
    /\ last.requests[1].itemName # last.requests[2].itemName
    /\ Len(last.before) >= 1
    /\ Len(last.sent) = 1

\* C10: every message a batch handler builds for a request it applies (increased,
\* changed, added; removed all, reduced) is among those it sends to the sink
C10_ActionMessagesReachSink ==
    (last.op \in {"order", "removal"} /\ last.hasSink) =>
        \A i \in 1..Len(last.built) :
            \E j \in 1..Len(last.sent) : last.sent[j] = last.built[i]

-----------------------------------------------------------------------------
(* Checkout and submission, under Spec *)

Pending == IF inFlight = NoDoc THEN 0 ELSE 1

\* C3: a confirm leaves exactly one write of the Bill pending: it starts one when
\* none is pending and starts none, keeping the pending one, when one is; it
\* inserts nothing itself
C3_ConfirmLeavesOneWrite ==
    [][(last'.op = "confirm") =>
            /\ Pending' = 1
            /\ bills' = bills
            /\ (Pending = 1 => inFlight' = inFlight)]_vars

\* a Bill as checkout makes them: items, and three fields that hold amounts
HoldsAmounts(bill) ==
    /\ bill # NoBill
    /\ Len(bill.items) > 0
    /\ \A field \in {bill.subtotal, bill.gstAmount, bill.grandTotal} :
          ~isNaN(parsePrice(field))

\* C4: confirming a Bill that holds items and amounts writes it: a document with
\* the Bill's fields, status "pending" and a timestamp is handed to the bills
\* collection, and the write is not skipped
C4_ValidBillIsWritten ==
    (last.op = "confirm" /\ HoldsAmounts(currentBillData)) =>
        /\ inFlight # NoDoc
        /\ inFlight.status = "pending"
        /\ "timestamp" \in DOMAIN inFlight
        /\ inFlight.subtotal = currentBillData.subtotal
        /\ currentPage = "bill"

\* C5: the Bill's items stay those its totals were computed from: the subtotal of
\* the items it holds is the subtotal it stores
C5_BillItemsMatchTotals ==
    currentBillData # NoBill =>
        calculateSubtotal(currentBillData.items) = currentBillData.subtotal

\* a Bill that the check of lines 307-313 turns down: none, one without items,
\* or one with a money field of which Number() makes no number
FailsTheCheck(bill) ==
    \/ bill = NoBill
    \/ Len(bill.items) = 0
    \/ \E field \in {bill.subtotal, bill.gstAmount, bill.grandTotal} :
          isNaN(NumberOf(field))

\* C11: a submission that has advanced to the final confirmation page with a Bill
\* that holds items and amounts has done so by a write that succeeded: the
\* document is in the collection, the ledger is empty and the flow is not
\* Submitting
C11_SuccessClearsLedger ==
    (currentPage = "finalConfirmation" /\ HoldsAmounts(currentBillData)) =>
        /\ Len(bills) >= 1
        /\ orderItems = <<>>
        /\ ~isSubmitting

\* C12: a confirm of a Bill that holds items and amounts, made while the flow is
\* Idle (a first attempt, or the attempt after a failed write), is accepted and
\* tries the write, with the page, the ledger and the Bill as they were; and the
\* alert of a failed write leaves the flow Idle with the same page, ledger and Bill
C12_FailureLeavesRetry ==
    [][/\ (last'.op = "confirm" /\ ~isSubmitting /\ HoldsAmounts(currentBillData)) =>
              /\ isSubmitting'
              /\ inFlight' # NoDoc
              /\ currentPage' = "bill"
              /\ orderItems' = orderItems
              /\ currentBillData' = currentBillData
       /\ (last'.op = "alert") =>
              /\ ~isSubmitting'
              /\ currentPage' = currentPage
              /\ orderItems' = orderItems
              /\ currentBillData' = currentBillData]_vars

\* C13: a confirm, made while the flow is Idle, of a Bill that the check turns
\* down starts no write and inserts nothing, warns, and advances to the final
\* confirmation page
C13_InvalidBillSkipsWrite ==
    [][(last'.op = "confirm" /\ ~isSubmitting /\ FailsTheCheck(currentBillData)) =>
            /\ inFlight' = inFlight
            /\ bills' = bills
            /\ ~isSubmitting'
            /\ last'.did = "skipped with a warning"
            /\ currentPage' = "finalConfirmation"]_vars

\* a Bill with a line, whose subtotal Number() does not read, was confirmed: the
\* guest is on the final confirmation page and nothing was written
C13_Witness ==
    /\ last.op = "confirm"
    /\ last.did = "skipped with a warning"
    /\ currentPage = "finalConfirmation"
    /\ currentBillData # NoBill
    /\ Len(currentBillData.items) >= 1
    /\ isNaN(NumberOf(currentBillData.subtotal))
    /\ inFlight = NoDoc
    /\ bills = <<>>

-----------------------------------------------------------------------------
(* The bill's amounts, under Spec *)

\* the price of an item, read from the menu by a person
PriceOf(id) == IF id = "m1" THEN 100 * Unit ELSE 49 * Unit + Unit \div 2

\* the sum over the lines of quantity times price
RECURSIVE SumOver(_)
SumOver(order) ==
    IF order = <<>> THEN 0
    ELSE Head(order).quantity * PriceOf(Head(order).id) + SumOver(Tail(order))

LinesOf(items) ==
    [i \in 1..Len(items) |-> <<items[i].id, items[i].notes, items[i].quantity>>]

C16_SubtotalIsSumOfLines ==
    (last.op = "checkout" /\ last.returned) =>
        /\ currentBillData # NoBill
        /\ LinesOf(currentBillData.items) = LinesOf(orderItems)
        /\ currentBillData.subtotal = calculateSubtotal(orderItems)
        /\ parsePrice(currentBillData.subtotal) = SumOver(orderItems)

\* the ledger with the one line Burger x 2 was checked out: subtotal 200.00
C16_Witness ==
    /\ last.op = "checkout"
    /\ last.returned
    /\ orderItems = <<Line("m1", Undefined, 2)>>
    /\ currentBillData # NoBill
    /\ currentBillData.subtotal = <<Rupee, "2", "0", "0", ".", "0", "0">>

-----------------------------------------------------------------------------
(* The batch reducers as functions, under SpecReducer *)

\* C14: a batch reducer leaves the ledger it was given as it was, its lines
\* keeping their quantities, and gives the same ledger when it is called again
\* on that previous ledger
C14_ReducersArePure ==
    (last.op \in {"order", "removal"}) =>
        /\ last.prevOrder = last.before
        /\ orderItems =
             (IF last.op = "order"
              THEN handleMultiItemOrder(last.prevOrder, last.requests, last.hasSink,
                                        activeMenuItems)
              ELSE handleMultiItemRemoval(last.prevOrder, last.requests, last.hasSink,
                                          activeMenuItems)).order

\* the keys a line can have: an item and its normalized notes
Keys == ItemIds \X {"plain", NoOnion}

KeyOf(request) == <<Means(request.itemName), Normalized(request.customizationNotes)>>

\* the quantity a ledger holds of a key: that of its lines of the key, 0 for none
QuantityOf(order, key) ==
    IF LinesFor(order, key[1], key[2]) = {} THEN 0
    ELSE order[CHOOSE i \in LinesFor(order, key[1], key[2]) : TRUE].quantity

\* the sum of the quantities that the requests of a batch ask of a key
RECURSIVE RequestedOf(_, _)
RequestedOf(requests, key) ==
    IF requests = <<>> THEN 0
    ELSE (IF KeyOf(Head(requests)) = key THEN Head(requests).quantity ELSE 0)
         + RequestedOf(Tail(requests), key)

\* C17: after an additions batch in which no request triggered the transform
\* rule, every key has at most one line, whose quantity is the quantity the
\* ledger held of the key before plus the sum of the quantities the batch asked
\* of it; a line was added only for a key the ledger did not hold
C17_BatchAccumulates ==
    (last.op = "order" /\ ~last.transformed) =>
        /\ \A key \in Keys :
              /\ Cardinality(LinesFor(orderItems, key[1], key[2])) <= 1
              /\ QuantityOf(orderItems, key)
                    = QuantityOf(last.before, key) + RequestedOf(last.requests, key)
        /\ Len(orderItems) = Len(last.before)
              + Cardinality({key \in Keys : /\ QuantityOf(last.before, key) = 0
                                            /\ RequestedOf(last.requests, key) > 0})

\* two requests of one key that the ledger did not hold made one line of the sum
\* of their quantities, next to the line the ledger had
C17_Witness ==
    /\ last.op = "order"
    /\ ~last.transformed
    /\ Len(last.requests) = 2
    /\ KeyOf(last.requests[1]) = KeyOf(last.requests[2])
    /\ KeyOf(last.requests[1]) \in Keys
    /\ QuantityOf(last.before, KeyOf(last.requests[1])) = 0
    /\ Len(last.before) = 1
    /\ Len(orderItems) = 2
    /\ QuantityOf(orderItems, KeyOf(last.requests[1])) = 3

\* the requests of a batch that no ledger reached from `order` by removals can
\* resolve: a name that is not on the menu, or a key of which `order` has no line
Unresolvable(order, requests) ==
    {i \in 1..Len(requests) :
        \/ Means(requests[i].itemName) = "not on the menu"
        \/ QuantityOf(order, KeyOf(requests[i])) = 0}

\* C18: a removals batch sends the sink at most one message, its "Could not
\* process removals" message, and sends it when a request names no menu item or no
\* line of the ledger; every request is either applied or an entry of that
\* message; a line that no other request asks for is as it was, and the first
\* request for a line of the ledger is applied
C18_UnresolvedRemovals ==
    (last.op = "removal" /\ last.hasSink /\ Len(last.requests) >= 1) =>
        LET unresolvable == Unresolvable(last.before, last.requests)
            entries == IF Len(last.sent) = 0 THEN <<>> ELSE last.sent[1].entries
        IN  /\ Len(last.sent) <= 1
            /\ \A m \in 1..Len(last.sent) :
                  last.sent[m].kind = "Could not process removals for"
            /\ unresolvable # {} => Len(last.sent) = 1
            /\ Len(entries) >= Cardinality(unresolvable)
            /\ Len(entries) + Len(last.built) = Len(last.requests)
            /\ unresolvable = 1..Len(last.requests) => orderItems = last.before
            /\ \A k \in 1..Len(last.before) :
                  (\A i \in 1..Len(last.requests) :
                        i \in unresolvable
                        \/ KeyOf(last.requests[i])
                              # <<last.before[k].id, Normalized(last.before[k].notes)>>)
                  => \E j \in 1..Len(orderItems) : orderItems[j] = last.before[k]
            /\ \A i \in 1..Len(last.requests) :
                  (/\ i \notin unresolvable
                   /\ \A j \in 1..(i - 1) : KeyOf(last.requests[j]) # KeyOf(last.requests[i]))
                  => QuantityOf(orderItems, KeyOf(last.requests[i]))
                        < QuantityOf(last.before, KeyOf(last.requests[i]))

\* a request for an item that is on the menu but not in the ledger was followed
\* by a request that was applied: one message with one entry, and a ledger changed
C18_Witness ==
    /\ last.op = "removal"
    /\ last.hasSink
    /\ Len(last.requests) = 2
    /\ Means(last.requests[1].itemName) # "not on the menu"
    /\ Unresolvable(last.before, last.requests) = {1}
    /\ Len(last.before) = 2
    /\ Len(last.sent) = 1
    /\ Len(last.sent[1].entries) = 1
    /\ Len(orderItems) = 1

-----------------------------------------------------------------------------
(* The life of the ledger, under Spec *)

\* C19 as it is worded: a ledger that has lines becomes empty only by the
\* clearing after a write that succeeded or by "start new order"
C19_EmptiedOnlyByClearing ==
    [][(orderItems # <<>> /\ orderItems' = <<>>) =>
            last'.op \in {"written", "startNewOrder"}]_vars

\* C19: the ledger is empty at the start; a ledger that has lines becomes empty
\* only by a ledger handler taking out its last lines, by the clearing after a
\* write that succeeded, or by "start new order"; "start new order" empties the
\* ledger, discards the Bill, clears the table number and shows the welcome page;
\* and before the chat page of an order there is no line and no Bill
C19_LedgerLifecycle ==
    /\ orderItems = <<>>
    /\ [](currentPage \in {"welcome", "tableNumberEntry"} =>
              orderItems = <<>> /\ currentBillData = NoBill)
    /\ [][/\ (orderItems # <<>> /\ orderItems' = <<>>) =>
                last'.op \in {"ledger", "written", "startNewOrder"}
          /\ (last'.op = "startNewOrder") =>
                /\ orderItems' = <<>>
                /\ currentBillData' = NoBill
                /\ tableNumber' = <<>>
                /\ currentPage' = "welcome"]_vars

\* "start new order" was pressed: the welcome page, no line, no Bill, no table
\* number, with the menu still loaded
C19_Witness ==
    /\ last.op = "startNewOrder"
    /\ currentPage = "welcome"
    /\ orderItems = <<>>
    /\ currentBillData = NoBill
    /\ tableNumber = <<>>
    /\ ~isMenuLoading

-----------------------------------------------------------------------------
(* The loading of the menu, under SpecMenu *)

\* a cache that holds a list with an item in it
HoldsMenu(stored) == stored.json = "array" /\ stored.items # <<>>

\* C20: the loading ends; when it has ended the loading flag is cleared and the
\* menu has items; it ends at once with the cached list when the cache holds a
\* list with items, leaving the cache as it is; otherwise it ends with the list
\* parsed from the file, written to the cache, or with the built-in list, written
\* to the cache, and an error to show
C20_MenuLoads ==
    /\ <>(loadMenuAt = "done")
    /\ [](loadMenuAt = "done" => ~isMenuLoading /\ Len(activeMenuItems) > 0)
    /\ [][/\ (loadMenuAt = "start" /\ loadMenuAt' # "start" /\ HoldsMenu(storedMenuJson)) =>
                /\ loadMenuAt' = "done"
                /\ activeMenuItems' = storedMenuJson.items
                /\ storedMenuJson' = storedMenuJson
          /\ (loadMenuAt # "done" /\ loadMenuAt' = "done" /\ ~HoldsMenu(storedMenuJson)) =>
                IF last'.from = "file"
                THEN /\ loadMenuAt = "parse"
                     /\ activeMenuItems' = MENU_XLSX
                     /\ storedMenuJson' = Stored(MENU_XLSX)
                ELSE /\ activeMenuItems' = DEFAULT_MENU_ITEMS
                     /\ storedMenuJson' = Stored(DEFAULT_MENU_ITEMS)
                     /\ menuLoadingError' # NoError
          /\ (loadMenuAt = "done") => (loadMenuAt' = "done" /\ ~isMenuLoading')]_vars

\* the cache held no list, the file was fetched and read and had no item in it:
\* the built-in list is the menu and is in the cache, with the error to show
C20_Witness ==
    /\ loadMenuAt = "done"
    /\ last.op = "loadMenu"
    /\ last.from = "default"
    /\ activeMenuItems = DEFAULT_MENU_ITEMS
    /\ storedMenuJson = Stored(DEFAULT_MENU_ITEMS)
    /\ menuLoadingError = EmptyFileMessage
    /\ ~isMenuLoading

-----------------------------------------------------------------------------
(* The generic message, under SpecReducer *)

\* how many requests of a batch a message to the sink lists as unresolved
ListedIn(sent) ==
    IF Len(sent) = 0 THEN 0
    ELSE IF sent[1].kind = "Could not find" THEN Len(sent[1].names)
    ELSE IF sent[1].kind = "Could not process removals for" THEN Len(sent[1].entries)
    ELSE 0

\* C21: no batch handler ever sends the sink its generic "couldn't identify any
\* items" message: of a batch given with a sink every request is applied (it has
\* its action message built) or listed as unresolved, so a non-empty batch has a
\* request applied or a request listed
C21_GenericMessageNeverSent ==
    (last.op \in {"order", "removal"}) =>
        /\ \A m \in 1..Len(last.sent) :
              last.sent[m] \notin {CouldNotIdentifyToAdd, CouldNotIdentifyToRemove}
        /\ last.hasSink =>
              /\ Len(last.built) + ListedIn(last.sent) = Len(last.requests)
              /\ Len(last.requests) > 0 =>
                    (Len(last.built) > 0 \/ ListedIn(last.sent) > 0)

\* a removals batch of two requests for an item of the menu that the ledger has
\* no line of: nothing applied, and the one message sent lists both
C21_Witness ==
    /\ last.op = "removal"
    /\ last.hasSink
    /\ Len(last.requests) = 2
    /\ \A i \in 1..2 : Means(last.requests[i].itemName) # "not on the menu"
    /\ Len(last.built) = 0
    /\ orderItems = last.before
    /\ Len(last.sent) = 1
    /\ last.sent[1].kind = "Could not process removals for"
    /\ Len(last.sent[1].entries) = 2

-----------------------------------------------------------------------------
(* Checkout of an empty ledger, under Spec *)

\* C22: a checkout of a ledger with no line returns false and leaves the Bill,
\* if there is one, and the page as they were, which is not the bill page; a
\* checkout of a ledger with lines returns true; so a Bill always has an item
C22_EmptyCheckoutIsNoOp ==
    /\ [](currentBillData # NoBill => Len(currentBillData.items) >= 1)
    /\ [][(currentPage = "chat" /\ last'.op = "checkout") =>
             IF orderItems = <<>>
             THEN /\ ~last'.returned
                  /\ currentBillData' = currentBillData
                  /\ currentPage' = "chat"
                  /\ orderItems' = <<>>
             ELSE /\ last'.returned
                  /\ currentPage' = "bill"
                  /\ Len(currentBillData'.items) = Len(orderItems)]_vars

\* back from the bill page the guest removed every line and checked out again:
\* false, still on the chat page, with the Bill of the first checkout
C22_Witness ==
    /\ last.op = "checkout"
    /\ ~last.returned
    /\ orderItems = <<>>
    /\ currentPage = "chat"
    /\ currentBillData # NoBill
    /\ Len(currentBillData.items) = 1

====
